---------------------------- MODULE Spec2Model ----------------------------
(***************************************************************************)
(* Model of scripts/generate_elaboration_report.py: the output indexer,    *)
(* the wrapper-tolerant matcher, the status precedence rule and the report *)
(* assembler with its CSV write.                                           *)
(*                                                                         *)
(* A Python str is modelled as a sequence of atoms.  An atom is either one *)
(* of the punctuation characters "/" (os.sep), "." (the extension          *)
(* separator), "," or a word that contains none of them.  Concatenation of *)
(* strings is \o, '' is << >>.  split, join, dirname, basename, splitext   *)
(* and lower are computed on that representation as Python computes them.  *)
(***************************************************************************)
EXTENDS Integers, Sequences, FiniteSets, TLC

VARIABLES
    \* ---- one execution of main() / generate_report() ----
    srcTree,        \* files under data_dir (relative paths)
    outTree,        \* files under output_dir (relative paths)
    exts,           \* the parsed --exts list
    include_all,    \* --include-all
    sort_rows,      \* not --no-sort
    pc,             \* position inside generate_report
    visitedOut,     \* output files os.walk has yielded so far, in order
    statFailed,     \* output files whose os.path.getmtime raised in this run
    outputs,        \* scan_outputs' list
    visitedSrc,     \* source files os.walk has yielded so far, in order
    rows,           \* generate_report's rows
    total_sources,  \* generate_report's counter
    opened,         \* this run's open(out_csv, 'w') succeeded
    buf,            \* lines handed to the file object of out_csv, while it is open
    disk,           \* content of out_csv on disk
    stdout,         \* what the run printed
    exit_code,      \* the process's exit status (-1 while running)
    \* ---- a single call of one of the pure functions ----
    arg,            \* the call's arguments
    ret             \* << >> before the call, <<result>> after it

runVars == <<srcTree, outTree, exts, include_all, sort_rows, pc, visitedOut,
             statFailed, outputs, visitedSrc, rows, total_sources, opened, buf,
             disk, stdout, exit_code>>
callVars == <<arg, ret>>
vars == <<runVars, callVars>>

(***************************************************************************)
(* Bounds of the model.                                                    *)
(***************************************************************************)
MaxKinds == 4       \* longest match_kinds list given to determine_status
MaxPathLen == 5     \* longest path (in atoms) given to strip_leading
MaxWrap == 2        \* longest wrapper prefix put before a path
MaxOutputs == 2     \* longest outputs list given to find_matches_for_source
MaxOutFiles == 2    \* most files in the output tree
MaxSrcFiles == 2    \* most files in the source tree

(***************************************************************************)
(* Strings.                                                                *)
(***************************************************************************)
SEP == "/"
DOT == "."
COMMA == ","

\* str.lower() of one atom
LowerAtom(a) ==
    CASE a = "FTP" -> "ftp"
      [] a = "Ftp" -> "ftp"
      [] a = "Data" -> "data"
      [] a = "OUT" -> "out"
      [] a = "Tmp" -> "tmp"
      [] a = "A" -> "a"
      [] a = "B" -> "b"
      [] a = "IMG" -> "img"
      [] a = "PNG" -> "png"
      [] a = "PDF" -> "pdf"
      [] a = "CSV" -> "csv"
      [] a = "Error" -> "error"
      [] a = "TIMEOUT" -> "timeout"
      [] OTHER -> a

\* str.lower()
Lower(s) == [i \in DOMAIN s |-> LowerAtom(s[i])]

\* s.rfind(c) + 1: the 1-based position of the last c in s, 0 when there is none
RFind(s, c) ==
    LET hits == {i \in DOMAIN s : s[i] = c}
    IN  IF hits = {} THEN 0 ELSE CHOOSE i \in hits : \A j \in hits : j <= i

\* s.find(c) + 1
Find(s, c) ==
    LET hits == {i \in DOMAIN s : s[i] = c}
    IN  IF hits = {} THEN 0 ELSE CHOOSE i \in hits : \A j \in hits : i <= j

\* s.split(c): the pieces between the occurrences of c, empty pieces included
RECURSIVE Split(_, _)
Split(s, c) ==
    LET i == Find(s, c)
    IN  IF i = 0 THEN <<s>>
        ELSE <<SubSeq(s, 1, i - 1)>> \o Split(SubSeq(s, i + 1, Len(s)), c)

\* c.join(parts)
RECURSIVE Join(_, _)
Join(parts, c) ==
    IF parts = << >> THEN << >>
    ELSE IF Len(parts) = 1 THEN parts[1]
    ELSE parts[1] \o c \o Join(Tail(parts), c)

\* s.rstrip(c)
RECURSIVE RStrip(_, _)
RStrip(s, c) ==
    IF s # << >> /\ s[Len(s)] = c THEN RStrip(SubSeq(s, 1, Len(s) - 1), c) ELSE s

\* posixpath.dirname
dirname(p) ==
    LET i == RFind(p, SEP)
        head == SubSeq(p, 1, i)
    IN  IF head # << >> /\ \E k \in DOMAIN head : head[k] # SEP
        THEN RStrip(head, SEP) ELSE head

\* posixpath.basename
basename(p) == SubSeq(p, RFind(p, SEP) + 1, Len(p))

\* posixpath.splitext of a name without separators: <<root, ext>>; leading dots
\* do not start an extension
splitext(p) ==
    LET d == RFind(p, DOT)
    IN  IF d > 0 /\ \E j \in 1..(d - 1) : p[j] # DOT
        THEN <<SubSeq(p, 1, d - 1), SubSeq(p, d, Len(p))>>
        ELSE <<p, << >> >>

(***************************************************************************)
(* find_matches_for_source and its local strip_leading.                    *)
(***************************************************************************)
W(a) == <<a>>

SKIP_LEADING == {W("ftp"), W("data"), W("source"), W("files"), W("input"),
                 W("in"), W("out"), W("output"), W("tmp")}

\* parts = [p for p in path.split(os.sep) if p]
Parts(path) == SelectSeq(Split(path, SEP), LAMBDA p : p # << >>)

strip_leading_first_only(path) ==
    LET parts == Parts(path)
    IN  IF parts # << >> /\ Lower(parts[1]) \in SKIP_LEADING
        THEN Join(Tail(parts), <<SEP>>) ELSE Join(parts, <<SEP>>)

strip_leading_case_sensitive(path) ==
    LET parts == Parts(path)
        keep == {i \in DOMAIN parts : parts[i] \notin SKIP_LEADING}
    IN  IF keep = {} THEN << >>
        ELSE LET i == CHOOSE k \in keep : \A j \in keep : k <= j
             IN  Join(SubSeq(parts, i, Len(parts)), <<SEP>>)

strip_leading(path) ==
    LET parts == Parts(path)
        keep == {i \in DOMAIN parts : Lower(parts[i]) \notin SKIP_LEADING}
    IN  IF keep = {} THEN << >>
        ELSE LET i == CHOOSE k \in keep : \A j \in keep : k <= j
             IN  Join(SubSeq(parts, i, Len(parts)), <<SEP>>)

\* the loop body's test, lines 79-80
IsMatch(src_rel, src_basename, out) ==
    /\ strip_leading(dirname(out.rel)) = strip_leading(dirname(src_rel))
    /\ out.basename = src_basename

find_matches_first_only(src_rel, src_basename, outs) ==
    LET hit == {i \in DOMAIN outs : IsMatch(src_rel, src_basename, outs[i])}
    IN  IF hit = {} THEN << >>
        ELSE <<outs[CHOOSE i \in hit : \A j \in hit : i <= j]>>

find_matches_for_source(src_rel, src_basename, outs) ==
    SelectSeq(outs, LAMBDA out : IsMatch(src_rel, src_basename, out))

(***************************************************************************)
(* determine_status.                                                       *)
(***************************************************************************)
\* set(match_kinds)
Range(seq) == {seq[i] : i \in DOMAIN seq}

determine_status_error_first(match_kinds) ==
    LET kinds == Range(match_kinds)
    IN  IF "csv" \in kinds THEN "ELABORATED"
        ELSE IF "error" \in kinds THEN "ERROR"
        ELSE IF "timeout" \in kinds THEN "TIMEOUT"
        ELSE "NOT_ELABORATED"

determine_status(match_kinds) ==
    LET kinds == Range(match_kinds)
    IN  IF "csv" \in kinds THEN "ELABORATED"
        ELSE IF "timeout" \in kinds THEN "TIMEOUT"
        ELSE IF "error" \in kinds THEN "ERROR"
        ELSE "NOT_ELABORATED"

(***************************************************************************)
(* scan_outputs: the record of one file.                                   *)
(***************************************************************************)
\* lines 44-51
Kind(ext) ==
    IF Lower(ext) = <<DOT, "csv">> THEN "csv"
    ELSE IF Lower(ext) = <<DOT, "timeout">> THEN "timeout"
    ELSE IF Lower(ext) = <<DOT, "error">> THEN "error"
    ELSE "other"

\* the directory given on the command line, as os.walk's roots start with it
OutputDir == <<"output">>
DataDir == <<"data">>

\* what datetime...isoformat() gives for a file whose stat succeeds
MTimeOf(rel) == <<"2024-01-01 00:00:00">>

\* iso_mtime: '' when os.path.getmtime raises
iso_mtime(rel, statOk) == IF statOk THEN MTimeOf(rel) ELSE << >>

\* lines 39-59, for the file os.walk yields at relative path rel
OutputRecord(rel, statOk) ==
    LET f == basename(rel)
        se == splitext(basename(f))
    IN  [full |-> OutputDir \o <<SEP>> \o rel,
         rel |-> rel,
         basename |-> se[1],
         ext |-> Lower(se[2]),
         kind |-> Kind(se[2]),
         mtime |-> iso_mtime(rel, statOk)]

(***************************************************************************)
(* Inputs of the single-call specifications.                               *)
(***************************************************************************)
\* all sequences over S of length at most n
SeqsUpTo(S, n) == UNION {[1..k -> S] : k \in 0..n}

\* a file name stem.ext
Name(stem, ext) == <<stem, DOT, ext>>

\* the path made of the directory segments dirs and the file name name
Path(dirs, name) == Join(dirs \o <<name>>, <<SEP>>)

KINDS == {"csv", "timeout", "error", "other"}

\* no variable of a run is in use
RunIdle ==
    /\ srcTree = {} /\ outTree = {} /\ exts = << >>
    /\ include_all = FALSE /\ sort_rows = TRUE
    /\ pc = "idle"
    /\ visitedOut = << >> /\ statFailed = {} /\ outputs = << >>
    /\ visitedSrc = << >> /\ rows = << >> /\ total_sources = 0
    /\ opened = FALSE /\ buf = << >> /\ disk = << >> /\ stdout = << >>
    /\ exit_code = -1

(***************************************************************************)
(* SpecStatus: one call of determine_status.                               *)
(***************************************************************************)
InitStatus ==
    /\ RunIdle
    /\ arg \in {[fn |-> "determine_status", match_kinds |-> ks] :
                    ks \in SeqsUpTo(KINDS, MaxKinds)}
    /\ ret = << >>

CallDetermineStatus ==
    /\ arg.fn = "determine_status" /\ ret = << >>
    /\ ret' = <<determine_status(arg.match_kinds)>>
    /\ UNCHANGED <<runVars, arg>>

NextStatus == CallDetermineStatus

SpecStatus == InitStatus /\ [][NextStatus]_vars

(***************************************************************************)
(* SpecNormalize: strip_leading applied to a path, then to its own result. *)
(***************************************************************************)
NormAtoms == {SEP, "ftp", "Data", "OUT", "A", "b"}

InitNormalize ==
    /\ RunIdle
    /\ arg \in {[fn |-> "strip_leading", path |-> p] :
                    p \in SeqsUpTo(NormAtoms, MaxPathLen)}
    /\ ret = << >>

CallStripLeading ==
    /\ arg.fn = "strip_leading" /\ ret = << >>
    /\ ret' = <<strip_leading(arg.path)>>
    /\ UNCHANGED <<runVars, arg>>

CallStripLeadingAgain ==
    /\ arg.fn = "strip_leading" /\ Len(ret) = 1
    /\ ret' = ret \o <<strip_leading(ret[1])>>
    /\ UNCHANGED <<runVars, arg>>

NextNormalize == CallStripLeading \/ CallStripLeadingAgain

SpecNormalize == InitNormalize /\ [][NextNormalize]_vars

(***************************************************************************)
(* SpecMatch: one call of find_matches_for_source on a list of records.    *)
(***************************************************************************)
MatchSrcPaths ==
    { Path(<< >>, Name("img", "png")),
      Path(<<W("ftp")>>, Name("img", "png")),
      Path(<<W("A")>>, Name("img", "png")),
      Path(<<W("FTP"), W("data"), W("A")>>, Name("img", "PNG")),
      Path(<<W("ftp"), W("A"), W("B")>>, Name("img", "png")) }

MatchBaseNames == {W("img"), W("IMG")}

MatchOutPaths ==
    { Path(<< >>, Name("img", "csv")),
      Path(<<W("output"), W("Tmp")>>, Name("img", "error")),
      Path(<<W("A")>>, Name("img", "csv")),
      Path(<<W("OUT"), W("A")>>, Name("img", "timeout")),
      Path(<<W("a")>>, Name("img", "csv")),
      Path(<<W("A")>>, Name("IMG", "csv")),
      Path(<<W("Data"), W("A"), W("B")>>, Name("img", "CSV")),
      Path(<<W("A"), W("out")>>, Name("img", "txt")) }

InitMatch ==
    /\ RunIdle
    /\ arg \in {[fn |-> "find_matches_for_source", src_rel |-> r,
                 src_basename |-> b, outputs |-> os] :
                    r \in MatchSrcPaths, b \in MatchBaseNames,
                    os \in SeqsUpTo({OutputRecord(p, TRUE) : p \in MatchOutPaths},
                                    MaxOutputs)}
    /\ ret = << >>

CallFindMatches ==
    /\ arg.fn = "find_matches_for_source" /\ ret = << >>
    /\ ret' = <<find_matches_for_source(arg.src_rel, arg.src_basename, arg.outputs)>>
    /\ UNCHANGED <<runVars, arg>>

NextMatch == CallFindMatches

SpecMatch == InitMatch /\ [][NextMatch]_vars

(***************************************************************************)
(* SpecWrap: a source and an output that differ only in their wrapper      *)
(* prefixes and extensions, given to find_matches_for_source.              *)
(***************************************************************************)
\* the nine wrapper words, and spellings of them in other letter case
WrapWords == SKIP_LEADING \cup {W("FTP"), W("Data")}
OutWrapWords == {W("output"), W("OUT")}

\* directory paths that do not start with a wrapper word
SubPaths == { << >>, <<W("A"), W("B")>>, <<W("a"), W("data")>>,
              <<<<"ftp", "A">>, W("B")>> }

InitWrap ==
    /\ RunIdle
    /\ arg \in {[fn |-> "wrapped", w1 |-> w1, w2 |-> w2, sub |-> sub,
                 src_rel |-> Path(w1 \o sub, Name("img", "png")),
                 out_rel |-> Path(w2 \o sub, Name("img", e))] :
                    w1 \in SeqsUpTo(WrapWords, MaxWrap),
                    w2 \in SeqsUpTo(OutWrapWords, MaxWrap),
                    sub \in SubPaths, e \in {"csv", "error"}}
    /\ ret = << >>

\* the caller's basename, line 114, and scan_outputs' record of the output
CallFindMatchesWrapped ==
    /\ arg.fn = "wrapped" /\ ret = << >>
    /\ ret' = <<find_matches_for_source(
                    arg.src_rel, splitext(basename(arg.src_rel))[1],
                    <<OutputRecord(arg.out_rel, TRUE)>>)>>
    /\ UNCHANGED <<runVars, arg>>

NextWrap == CallFindMatchesWrapped

SpecWrap == InitWrap /\ [][NextWrap]_vars

(***************************************************************************)
(* os.walk: the orders in which it can yield the files of a tree.  It      *)
(* yields a directory's own files before it descends, finishes a           *)
(* subdirectory before it starts the next; the order of the names inside   *)
(* one directory is the file system's.                                     *)
(***************************************************************************)
\* the directory of a file, as the list of its segments
DirOf(rel) == Parts(dirname(rel))

IsPrefix(a, b) == Len(a) <= Len(b) /\ a = SubSeq(b, 1, Len(a))

Prefixes(d) == {SubSeq(d, 1, k) : k \in 0..Len(d)}

WalkAllows(tree, visited, f) ==
    LET seen == Range(visited)
    IN  /\ f \in tree \ seen
        \* for root, _, files in os.walk(..): for f in files -- files first
        /\ \A D \in Prefixes(DirOf(f)) :
               D # DirOf(f) => \A g \in tree : DirOf(g) = D => g \in seen
        \* a subdirectory is walked to its end before the next one
        /\ visited # << >> =>
               \A D \in Prefixes(DirOf(visited[Len(visited)])) \ {<< >>} :
                   ~IsPrefix(D, DirOf(f)) =>
                       \A g \in tree : IsPrefix(D, DirOf(g)) => g \in seen

(***************************************************************************)
(* main: the --exts argument.                                              *)
(***************************************************************************)
COMMON_IMAGE_EXTS == <<<<DOT, "png">>, <<DOT, "jpg">>, <<DOT, "jpeg">>,
                       <<DOT, "tif">>, <<DOT, "tiff">>, <<DOT, "pdf">>,
                       <<DOT, "bmp">> >>

\* line 199
ParseExts(a) ==
    LET es == SelectSeq(Split(a, COMMA), LAMBDA e : e # << >>)
    IN  [i \in DOMAIN es |->
            IF es[i][1] = DOT THEN Lower(es[i]) ELSE <<DOT>> \o Lower(es[i])]

(***************************************************************************)
(* generate_report: one source file.                                       *)
(***************************************************************************)
\* os.path.abspath of a path under the working directory
abspath(p) == <<SEP, "cwd", SEP>> \o p

QualifiesCaseSensitive(f, es, all) ==
    all \/ splitext(f)[2] \in Range(es)

\* lines 107-110: the file is not skipped
Qualifies(f, es, all) ==
    ~(~all /\ Lower(splitext(f)[2]) \notin Range(es))

\* line 120
MatchDesc(m) == m.rel \o <<" (", m.kind, ", ">> \o m.mtime \o <<")">>

\* lines 127-137: <<category, book_container>>
CategoryOf(rel) ==
    LET parts == Split(rel, SEP)
        hit == {i \in DOMAIN parts :
                    parts[i] # << >> /\ Lower(parts[i]) \notin SKIP_LEADING}
        idx == IF hit = {} THEN 1 ELSE CHOOSE i \in hit : \A j \in hit : i <= j
    IN  <<IF Len(parts) >= idx THEN parts[idx] ELSE << >>,
          IF Len(parts) >= idx + 1 THEN parts[idx + 1] ELSE << >> >>

NumOutputsOfKnownKinds(matches) ==
    Len(SelectSeq(matches, LAMBDA m : m.kind # "other"))

\* line 124
NumOutputs(matches) == Len(matches)

\* lines 112-150, for the file os.walk yields at relative path rel
Row(rel, outs) ==
    LET f == basename(rel)
        full == DataDir \o <<SEP>> \o rel
        base == splitext(basename(f))[1]
        matches == find_matches_for_source(rel, base, outs)
        match_descs == [i \in DOMAIN matches |-> MatchDesc(matches[i])]
        kinds == [i \in DOMAIN matches |-> matches[i].kind]
        num_outputs == NumOutputs(matches)
        cat == CategoryOf(rel)
    IN  [source_path |-> abspath(full),
         relative_path |-> rel,
         basename |-> base,
         category |-> cat[1],
         book_container |-> cat[2],
         status |-> determine_status(kinds),
         has_output |-> num_outputs > 0,
         num_outputs |-> num_outputs,
         matched_outputs |-> Join(match_descs, <<"; ">>),
         notes |-> << >>]

(***************************************************************************)
(* rows.sort(key=lambda r: r['relative_path'])                             *)
(***************************************************************************)
\* the atoms of the source paths in code point order; none is a prefix of
\* another, so comparing atom by atom is comparing the strings
AtomOrder == <<DOT, SEP, "A", "B", "PDF", "doc", "ftp", "img", "notes", "png", "txt">>

AtomRank(a) == CHOOSE i \in DOMAIN AtomOrder : AtomOrder[i] = a

\* a < b for two str
RECURSIVE StrLess(_, _)
StrLess(a, b) ==
    IF b = << >> THEN FALSE
    ELSE IF a = << >> THEN TRUE
    ELSE IF a[1] = b[1] THEN StrLess(Tail(a), Tail(b))
    ELSE AtomRank(a[1]) < AtomRank(b[1])

\* list.sort is stable: r goes behind the rows whose key is not greater
RECURSIVE InsertRow(_, _)
InsertRow(sorted, r) ==
    IF sorted = << >> THEN <<r>>
    ELSE IF StrLess(r.relative_path, sorted[1].relative_path)
         THEN <<r>> \o sorted
         ELSE <<sorted[1]>> \o InsertRow(Tail(sorted), r)

RECURSIVE SortedRows(_)
SortedRows(rs) ==
    IF rs = << >> THEN << >>
    ELSE InsertRow(SortedRows(SubSeq(rs, 1, Len(rs) - 1)), rs[Len(rs)])

(***************************************************************************)
(* The CSV file.                                                           *)
(***************************************************************************)
fieldnames == <<"source_path", "relative_path", "basename", "category",
                "book_container", "status", "has_output", "num_outputs",
                "matched_outputs", "notes">>

\* writer.writeheader()
HeaderLine == [i \in DOMAIN fieldnames |-> <<fieldnames[i]>>]

\* str() of the cell of row r in column k, as csv writes it
Cell(r, k) ==
    CASE k = "status" -> <<r.status>>
      [] k = "has_output" -> (IF r.has_output THEN <<"True">> ELSE <<"False">>)
      [] k = "num_outputs" -> <<ToString(r.num_outputs)>>
      [] OTHER -> r[k]

\* writer.writerow({k: r.get(k, '') for k in fieldnames})
RowLine(r) == [i \in DOMAIN fieldnames |-> Cell(r, fieldnames[i])]

\* the file a run that succeeds leaves
FullReport(rs) == <<HeaderLine>> \o [i \in DOMAIN rs |-> RowLine(rs[i])]

\* lines 167-169
StatusCounts(rs) ==
    [st \in {"ELABORATED", "ERROR", "TIMEOUT", "NOT_ELABORATED"} |->
        Cardinality({i \in DOMAIN rs : rs[i].status = st})]

(***************************************************************************)
(* Spec: the script run on a source tree and an output tree.               *)
(***************************************************************************)
SrcUniverse ==
    { Path(<< >>, Name("img", "png")),
      Path(<<W("ftp"), W("A"), W("B")>>, Name("img", "png")),
      Path(<<W("A")>>, Name("doc", "PDF")),
      Path(<<W("A")>>, Name("notes", "txt")) }

OutUniverse ==
    { Path(<<W("output"), W("A"), W("B")>>, Name("img", "csv")),
      Path(<<W("output"), W("A"), W("B")>>, Name("img", "error")),
      Path(<<W("Data"), W("A"), W("B")>>, Name("img", "TIMEOUT")),
      Path(<<W("A")>>, Name("doc", "txt")) }

\* the --exts, --include-all and --no-sort arguments of the run:
\* <<exts, include_all, sort>>
DefaultExts == Join(COMMON_IMAGE_EXTS, <<COMMA>>)
OptionArgs ==
    { <<DefaultExts, FALSE, TRUE>>,
      <<<<"PDF", COMMA, DOT, "txt">>, FALSE, TRUE>>,
      <<DefaultExts, TRUE, TRUE>>,
      <<DefaultExts, FALSE, FALSE>> }

SubsetsUpTo(S, n) == {T \in SUBSET S : Cardinality(T) <= n}

CallIdle == arg = [fn |-> "none"] /\ ret = << >>

Init ==
    /\ CallIdle
    /\ srcTree \in SubsetsUpTo(SrcUniverse, MaxSrcFiles)
    /\ outTree \in SubsetsUpTo(OutUniverse, MaxOutFiles)
    /\ \E o \in OptionArgs :
           exts = ParseExts(o[1]) /\ include_all = o[2] /\ sort_rows = o[3]
    /\ disk = << >>
    /\ pc = "scan"
    /\ visitedOut = << >> /\ statFailed = {} /\ outputs = << >>
    /\ visitedSrc = << >> /\ rows = << >> /\ total_sources = 0
    /\ opened = FALSE /\ buf = << >> /\ stdout = << >>
    /\ exit_code = -1

IndexSkippingUnreadable(outs, f, statOk) ==
    IF statOk THEN Append(outs, OutputRecord(f, statOk)) ELSE outs

\* outputs.append({...}): lines 52-59
IndexWith(outs, f, statOk) == Append(outs, OutputRecord(f, statOk))

\* scan_outputs, one iteration of its loop: lines 38-59
ScanFile ==
    /\ pc = "scan"
    /\ \E f \in outTree, statOk \in BOOLEAN :
        /\ WalkAllows(outTree, visitedOut, f)
        /\ visitedOut' = Append(visitedOut, f)
        /\ outputs' = IndexWith(outputs, f, statOk)
        /\ statFailed' = IF statOk THEN statFailed ELSE statFailed \cup {f}
    /\ UNCHANGED <<srcTree, outTree, exts, include_all, sort_rows, pc, visitedSrc, rows, total_sources, opened, buf, disk, stdout,
                   exit_code, callVars>>

\* scan_outputs returns: lines 60, 98-103
ScanDone ==
    /\ pc = "scan"
    /\ Range(visitedOut) = outTree
    /\ pc' = "walk"
    /\ UNCHANGED <<srcTree, outTree, exts, include_all, sort_rows, visitedOut,
                   statFailed, outputs, visitedSrc, rows, total_sources, opened,
                   buf, disk, stdout, exit_code, callVars>>

\* generate_report, one iteration of its loop over the source files: lines 106-150
WalkFile ==
    /\ pc = "walk"
    /\ \E rel \in srcTree :
        /\ WalkAllows(srcTree, visitedSrc, rel)
        /\ visitedSrc' = Append(visitedSrc, rel)
        /\ IF Qualifies(basename(rel), exts, include_all)
           THEN /\ total_sources' = total_sources + 1
                /\ rows' = Append(rows, Row(rel, outputs))
           ELSE UNCHANGED <<total_sources, rows>>
    /\ UNCHANGED <<srcTree, outTree, exts, include_all, sort_rows, pc, visitedOut, statFailed, outputs, opened, buf, disk, stdout,
                   exit_code, callVars>>

\* the loop ends and the rows are sorted: lines 152-154
SortRows ==
    /\ pc = "walk"
    /\ Range(visitedSrc) = srcTree
    /\ rows' = IF sort_rows THEN SortedRows(rows) ELSE rows
    /\ pc' = "open"
    /\ UNCHANGED <<srcTree, outTree, exts, include_all, sort_rows, visitedOut,
                   statFailed, outputs, visitedSrc, total_sources, opened, buf,
                   disk, stdout, exit_code, callVars>>

\* an exception nothing catches ends the process: lines 200-201 are not reached
Abort ==
    /\ pc' = "failed"
    /\ exit_code' = 1

\* open(out_csv, 'w') truncates the file, and writeheader(): lines 157-160
OpenOk ==
    /\ pc = "open"
    /\ opened' = TRUE
    /\ disk' = << >>
    /\ buf' = <<HeaderLine>>
    /\ pc' = "rows"
    /\ UNCHANGED <<srcTree, outTree, exts, include_all, sort_rows, visitedOut,
                   statFailed, outputs, visitedSrc, rows, total_sources, stdout,
                   exit_code, callVars>>

\* open raises (the path is invalid, permission is denied): line 157
OpenFail ==
    /\ pc = "open"
    /\ Abort
    /\ UNCHANGED <<srcTree, outTree, exts, include_all, sort_rows, visitedOut,
                   statFailed, outputs, visitedSrc, rows, total_sources, opened,
                   buf, disk, stdout, callVars>>

\* the rows handed to the writer so far
Written == Len(buf) - 1

\* writer.writerow(row) puts the next row into the file object: lines 161-164
WriteRow ==
    /\ pc = "rows"
    /\ Written < Len(rows)
    /\ buf' = Append(buf, RowLine(rows[Written + 1]))
    /\ UNCHANGED <<srcTree, outTree, exts, include_all, sort_rows, pc,
                   visitedOut, statFailed, outputs, visitedSrc, rows,
                   total_sources, opened, disk, stdout, exit_code, callVars>>

\* as if the write were wrapped in try/except and the run went on
WriteFailSwallowed ==
    /\ pc = "rows"
    /\ \E k \in 0..(Len(buf) - 1) : disk' = SubSeq(buf, 1, k)
    /\ buf' = << >>
    /\ pc' = "summary"
    /\ UNCHANGED <<srcTree, outTree, exts, include_all, sort_rows, visitedOut,
                   statFailed, outputs, visitedSrc, rows, total_sources, opened,
                   stdout, exit_code, callVars>>

\* the file object raises while it writes its buffer out (the disk is full), in
\* a writerow or as the with block closes the file: the lines it had written out
\* before, fewer than it was handed, are what the file holds: lines 157-164
WriteFail ==
    /\ pc = "rows"
    /\ \E k \in 0..(Len(buf) - 1) : disk' = SubSeq(buf, 1, k)
    /\ buf' = << >>
    /\ Abort
    /\ UNCHANGED <<srcTree, outTree, exts, include_all, sort_rows, visitedOut,
                   statFailed, outputs, visitedSrc, rows, total_sources, opened,
                   stdout, callVars>>

\* the with block closes the file, every line is written out: line 164
Close ==
    /\ pc = "rows"
    /\ Written = Len(rows)
    /\ disk' = buf
    /\ buf' = << >>
    /\ pc' = "summary"
    /\ UNCHANGED <<srcTree, outTree, exts, include_all, sort_rows, visitedOut,
                   statFailed, outputs, visitedSrc, rows, total_sources, opened,
                   stdout, exit_code, callVars>>

\* the summary is printed, generate_report returns 0 and main raises
\* SystemExit(rc): lines 166-181, 200-201
PrintSummary ==
    /\ pc = "summary"
    /\ stdout' = <<[scanned |-> total_sources, counts |-> StatusCounts(rows)]>>
    /\ exit_code' = 0
    /\ pc' = "done"
    /\ UNCHANGED <<srcTree, outTree, exts, include_all, sort_rows, visitedOut,
                   statFailed, outputs, visitedSrc, rows, total_sources, opened,
                   buf, disk, callVars>>

Next ==
    \/ ScanFile \/ ScanDone \/ WalkFile \/ SortRows
    \/ OpenOk \/ OpenFail \/ WriteRow \/ WriteFail \/ Close
    \/ PrintSummary

Spec == Init /\ [][Next]_vars

(***************************************************************************)
(* What the claims are stated with.                                        *)
(***************************************************************************)
\* the wrapper words, as the specification lists them
WRAPPERS == {"ftp", "data", "source", "files", "input", "in", "out", "output", "tmp"}

IsWrapper(seg) == Len(seg) = 1 /\ LowerAtom(seg[1]) \in WRAPPERS

\* the non-empty segments of a path
Segments(path) == SelectSeq(Split(path, SEP), LAMBDA x : x # << >>)

\* the segments of the directory a relative file path lies in
DirSegments(rel) == LET segs == Segments(rel) IN SubSeq(segs, 1, Len(segs) - 1)

RECURSIVE DropWrappers(_)
DropWrappers(segs) ==
    IF segs # << >> /\ IsWrapper(segs[1]) THEN DropWrappers(Tail(segs)) ELSE segs

IsSuffixOf(a, b) == \E i \in 1..(Len(b) + 1) : a = SubSeq(b, i, Len(b))

\* C1: determine_status returns ELABORATED if csv is among the kinds, else
\* TIMEOUT if timeout is, else ERROR if error is, else NOT_ELABORATED, and every
\* other list with the same set of kinds (other counts, other order) gets the
\* same status.
C1_StatusPrecedence ==
    (arg.fn = "determine_status" /\ ret # << >>) =>
        LET K == Range(arg.match_kinds)
        IN  /\ ret[1] = (CASE "csv" \in K -> "ELABORATED"
                           [] "csv" \notin K /\ "timeout" \in K -> "TIMEOUT"
                           [] {"csv", "timeout"} \cap K = {} /\ "error" \in K -> "ERROR"
                           [] OTHER -> "NOT_ELABORATED")
            /\ \A ks \in SeqsUpTo(KINDS, MaxKinds) :
                   Range(ks) = K => determine_status(ks) = ret[1]

\* an error, a timeout and a second error, in that order, resolved to TIMEOUT
C1_Witness ==
    /\ arg.fn = "determine_status"
    /\ arg.match_kinds = <<"error", "timeout", "error">>
    /\ ret = <<"TIMEOUT">>

\* C2: find_matches_for_source returns exactly the records whose wrapper-stripped
\* directory equals the source's and whose basename is string-equal to the
\* source basename: all of them, each once, in index order, and nothing else.
C2_ExactMatches ==
    (arg.fn = "find_matches_for_source" /\ ret # << >>) =>
        LET outs == arg.outputs
            want == {i \in DOMAIN outs :
                        /\ DropWrappers(DirSegments(outs[i].rel))
                               = DropWrappers(DirSegments(arg.src_rel))
                        /\ outs[i].basename = arg.src_basename}
            got == ret[1]
        IN  /\ Len(got) = Cardinality(want)
            /\ \E f \in [DOMAIN got -> DOMAIN outs] :
                   /\ \A k \in DOMAIN got : f[k] \in want /\ got[k] = outs[f[k]]
                   /\ \A j, k \in DOMAIN got : j < k => f[j] < f[k]

\* two outputs in different directories, of a list of two, both matched
C2_Witness ==
    /\ arg.fn = "find_matches_for_source" /\ ret # << >>
    /\ Len(arg.outputs) = 2 /\ Len(ret[1]) = 2
    /\ ret[1][1].rel # ret[1][2].rel
    /\ dirname(ret[1][1].rel) # dirname(ret[1][2].rel)

\* C3: a source at <W1>/<sub>/file.<ext> and an output at <W2>/<sub>/file.<ext'>
\* match, for all wrapper prefixes W1 and W2 (empty, several segments, any letter
\* case) and every subpath that does not start with a wrapper word.
C3_WrapperRenaming ==
    (arg.fn = "wrapped" /\ ret # << >>) =>
        ret[1] = <<OutputRecord(arg.out_rel, TRUE)>>

\* FTP/input/A/B/img.png matched output/OUT/A/B/img.csv
C3_Witness ==
    /\ arg.fn = "wrapped" /\ ret # << >> /\ ret[1] # << >>
    /\ arg.w1 = <<W("FTP"), W("input")>>
    /\ arg.w2 = <<W("output"), W("OUT")>>
    /\ arg.sub = <<W("A"), W("B")>>

\* C4: strip_leading is idempotent, and its result is the empty string exactly
\* when the path has no segment that is not a wrapper word, and otherwise the
\* segments of the path from its first non-wrapper segment on.
C4_NormalizeIdempotent ==
    (arg.fn = "strip_leading" /\ ret # << >>) =>
        LET segs == Segments(arg.path)
            res == Segments(ret[1])
        IN  /\ Len(ret) = 2 => ret[2] = ret[1]
            /\ ret[1] = Join(res, <<SEP>>)
            /\ IsSuffixOf(res, segs)
            /\ res # << >> => ~IsWrapper(res[1])
            /\ \A i \in 1..(Len(segs) - Len(res)) : IsWrapper(segs[i])

\* ftp/OUT/A was normalized to A, and A again to A
C4_Witness ==
    /\ arg.fn = "strip_leading"
    /\ arg.path = <<"ftp", SEP, "OUT", SEP, "A">>
    /\ ret = <<W("A"), W("A")>>

(***************************************************************************)
(* Claims about a run.                                                     *)
(***************************************************************************)
\* an output file corresponds to a source file: same wrapper-stripped directory,
\* same basename
Corresponds(outRel, srcRel) ==
    /\ DropWrappers(DirSegments(outRel)) = DropWrappers(DirSegments(srcRel))
    /\ splitext(basename(outRel))[1] = splitext(basename(srcRel))[1]

\* the file passes the extension filter of the run
PassesFilter(rel) == include_all \/ Lower(splitext(basename(rel))[2]) \in Range(exts)

TraversalOver == pc \notin {"scan", "walk"}

\* C5: category is the first segment of the source's wrapper-stripped relative
\* directory and book_container the one after it, each '' when the directory has
\* no such segment; the file name is never reported as either.
C5_CategoryFromDirectory ==
    \A i \in DOMAIN rows :
        LET d == DropWrappers(DirSegments(rows[i].relative_path))
        IN  /\ rows[i].category = (IF Len(d) >= 1 THEN d[1] ELSE << >>)
            /\ rows[i].book_container = (IF Len(d) >= 2 THEN d[2] ELSE << >>)

\* C6: the rows are exactly one per source file visited that passes the
\* extension filter (any file under include_all), none for a file that does not,
\* total_sources is their number, and after the traversal every file of the
\* source tree has been visited.
C6_RowCount ==
    /\ total_sources = Len(rows)
    /\ \A i \in DOMAIN rows :
           rows[i].relative_path \in Range(visitedSrc) \cap srcTree
    /\ \A f \in Range(visitedSrc) :
           Cardinality({i \in DOMAIN rows : rows[i].relative_path = f})
               = (IF PassesFilter(f) THEN 1 ELSE 0)
    /\ TraversalOver => Range(visitedSrc) = srcTree
    /\ TraversalOver => Len(rows) = Cardinality({f \in srcTree : PassesFilter(f)})

\* A/doc.PDF passed the default filter and A/notes.txt did not: one row
C6_Witness ==
    /\ pc = "done" /\ ~include_all
    /\ srcTree = {Path(<<W("A")>>, Name("doc", "PDF")),
                  Path(<<W("A")>>, Name("notes", "txt"))}
    /\ Len(rows) = 1 /\ total_sources = 1
    /\ rows[1].relative_path = Path(<<W("A")>>, Name("doc", "PDF"))

\* the orders in which os.walk can yield the files of a tree
WalkOrders(tree) ==
    {o \in [1..Cardinality(tree) -> tree] :
        \A k \in DOMAIN o : WalkAllows(tree, SubSeq(o, 1, k - 1), o[k])}

\* the report of the run in which os.walk yields the output files in the order
\* outOrder and the source files in the order srcOrder
ReportFor(outOrder, srcOrder) ==
    LET outs == [i \in DOMAIN outOrder |->
                    OutputRecord(outOrder[i], outOrder[i] \notin statFailed)]
        kept == SelectSeq(srcOrder,
                          LAMBDA f : Qualifies(basename(f), exts, include_all))
        rs == [i \in DOMAIN kept |-> Row(kept[i], outs)]
    IN  FullReport(IF sort_rows THEN SortedRows(rs) ELSE rs)

\* C7: with sort enabled, the report of a run is the report of every run on the
\* same trees, whatever the order in which the walks enumerate the files (stated
\* for the runs in which every timestamp could be read).
C7_Determinism ==
    (pc = "done" /\ sort_rows /\ statFailed = {}) =>
        \A oo \in WalkOrders(outTree), so \in WalkOrders(srcTree) :
            ReportFor(oo, so) = disk

\* the kind the extension of an output file stands for
KindOfFile(rel) ==
    LET e == Lower(splitext(basename(rel))[2])
    IN  IF e = <<DOT, "csv">> THEN "csv"
        ELSE IF e = <<DOT, "timeout">> THEN "timeout"
        ELSE IF e = <<DOT, "error">> THEN "error" ELSE "other"

StatusOfKinds(K) ==
    IF "csv" \in K THEN "ELABORATED"
    ELSE IF "timeout" \in K THEN "TIMEOUT"
    ELSE IF "error" \in K THEN "ERROR" ELSE "NOT_ELABORATED"

\* C8: every output file visited has its record in the index, with mtime ''
\* exactly when its timestamp could not be read; such a file is matched, counted
\* in num_outputs and its kind enters the status like any other; and a run fails
\* only once both traversals are over.
C8_StatFailureAbsorbed ==
    /\ Len(outputs) = Len(visitedOut)
    /\ \A i \in DOMAIN outputs :
           /\ outputs[i].rel = visitedOut[i]
           /\ outputs[i].kind = KindOfFile(visitedOut[i])
           /\ (outputs[i].mtime = << >>) <=> (visitedOut[i] \in statFailed)
    /\ \A i \in DOMAIN rows :
           LET m == {f \in outTree : Corresponds(f, rows[i].relative_path)}
           IN  /\ rows[i].num_outputs = Cardinality(m)
               /\ rows[i].status = StatusOfKinds({KindOfFile(f) : f \in m})
    /\ (pc = "failed" \/ exit_code > 0) =>
           Range(visitedOut) = outTree /\ Range(visitedSrc) = srcTree

\* the run succeeded although the timestamp of the matched csv could not be
\* read, and that csv made its source ELABORATED with two outputs
C8_Witness ==
    /\ pc = "done" /\ exit_code = 0
    /\ Path(<<W("output"), W("A"), W("B")>>, Name("img", "csv")) \in statFailed
    /\ \E i \in DOMAIN rows :
           rows[i].status = "ELABORATED" /\ rows[i].num_outputs = 2

IsSortedByPath(rs) ==
    \A i, j \in DOMAIN rs :
        i < j => ~StrLess(rs[j].relative_path, rs[i].relative_path)

IsStrictPrefix(a, b) == Len(a) < Len(b) /\ a = SubSeq(b, 1, Len(a))

Entries(cell) == IF cell = << >> THEN << >> ELSE Split(cell, "; ")

\* C10: in every row num_outputs is the number of matched records and of
\* entries in matched_outputs, has_output is num_outputs > 0, and the status is
\* NOT_ELABORATED exactly when no matched record is a csv, a timeout or an error.
C10_RowConsistency ==
    \A i \in DOMAIN rows :
        LET r == rows[i]
            m == {k \in DOMAIN outputs :
                     /\ DropWrappers(DirSegments(outputs[k].rel))
                            = DropWrappers(DirSegments(r.relative_path))
                     /\ outputs[k].basename = r.basename}
        IN  /\ r.num_outputs = Cardinality(m)
            /\ Len(Entries(r.matched_outputs)) = r.num_outputs
            /\ r.has_output <=> r.num_outputs > 0
            /\ (r.status = "NOT_ELABORATED") <=>
                   (\A k \in m : outputs[k].kind \notin {"csv", "timeout", "error"})
            /\ m = {} => /\ r.status = "NOT_ELABORATED" /\ ~r.has_output
                         /\ r.num_outputs = 0 /\ r.matched_outputs = << >>
            /\ (r.has_output /\ r.status = "NOT_ELABORATED") =>
                   \A k \in m : outputs[k].kind = "other"

\* one row has an output of kind other only, another row has no output at all
C10_Witness ==
    /\ pc = "done"
    /\ \E i, j \in DOMAIN rows :
           /\ rows[i].has_output /\ rows[i].status = "NOT_ELABORATED"
           /\ rows[i].num_outputs = 1
           /\ ~rows[j].has_output /\ rows[j].matched_outputs = << >>

=============================================================================
